---- MODULE Spec2Model ----
(***************************************************************************)
(* The NACE taxonomy tools of app/tools/parser.py as a state machine:      *)
(* parse_nace_activities (one step per iteration of its two loops),        *)
(* validate_nace_activities and split_nace_by_sections (one step per       *)
(* line).  A Python str is a sequence of characters,                       *)
(* each character a one-character string; the en dash and the em dash are  *)
(* the characters "ENDASH" and "EMDASH"; "QUOTE", "BACKSLASH" and          *)
(* "BACKTICK" are written out likewise.                                    *)
(***************************************************************************)
EXTENDS Integers, Sequences, FiniteSets, TLC

\* ------------------------------------------------------------------------
\* Python built-ins used by the parser
\* ------------------------------------------------------------------------

Whitespace == {" ", "\t", "\n", "\r"}

Digits == {"0", "1", "2", "3", "4", "5", "6", "7", "8", "9"}

Upper ==
    {"A", "B", "C", "D", "E", "F", "G", "H", "I", "J", "K", "L", "M",
     "N", "O", "P", "Q", "R", "S", "T", "U", "V", "W", "X", "Y", "Z"}

Dashes == {"ENDASH", "EMDASH", "-"}

\* None, for a str-valued local; no str equals it
None == <<"None">>

Ascii ==
    <<" ","!","QUOTE","#","$","%","&","'","(",")","*","+",",","-",".","/",
      "0","1","2","3","4","5","6","7","8","9",":",";","<","=",">","?","@",
      "A","B","C","D","E","F","G","H","I","J","K","L","M","N","O","P","Q",
      "R","S","T","U","V","W","X","Y","Z","[","BACKSLASH","]","^","_","BACKTICK",
      "a","b","c","d","e","f","g","h","i","j","k","l","m","n","o","p","q",
      "r","s","t","u","v","w","x","y","z","{","|","}","~">>

\* the code point of a character
ord(c) ==
    CASE c = "\t" -> 9
      [] c = "\n" -> 10
      [] c = "\r" -> 13
      [] c = "ENDASH" -> 8211
      [] c = "EMDASH" -> 8212
      [] OTHER -> 31 + (CHOOSE k \in 1..Len(Ascii) : Ascii[k] = c)

SetMin(S) == CHOOSE x \in S : \A y \in S : x <= y

\* the first position from k on where a and b differ or one of them ends
RECURSIVE first_diff(_, _, _)
first_diff(a, b, k) ==
    IF k <= Len(a) /\ k <= Len(b) /\ a[k] = b[k] THEN first_diff(a, b, k + 1) ELSE k

\* a < b on str: lexicographic by code point
str_lt(a, b) ==
    LET k == first_diff(a, b, 1)
    IN  IF k > Len(a) THEN k <= Len(b)
        ELSE IF k > Len(b) THEN FALSE
        ELSE ord(a[k]) < ord(b[k])

\* the first position from k on whose character is not in chars (Len(s) + 1 if none)
RECURSIVE skip_right(_, _, _)
skip_right(s, chars, k) ==
    IF k <= Len(s) /\ s[k] \in chars THEN skip_right(s, chars, k + 1) ELSE k

\* the last position up to k whose character is not in chars (0 if none)
RECURSIVE skip_left(_, _, _)
skip_left(s, chars, k) ==
    IF k >= 1 /\ s[k] \in chars THEN skip_left(s, chars, k - 1) ELSE k

\* s.lstrip(chars)
str_lstrip(s, chars) == SubSeq(s, skip_right(s, chars, 1), Len(s))

\* s.rstrip(chars)
str_rstrip(s, chars) == SubSeq(s, 1, skip_left(s, chars, Len(s)))

\* s.strip()
str_strip(s) == str_rstrip(str_lstrip(s, Whitespace), Whitespace)

\* s.startswith(p)
str_startswith(s, p) == Len(s) >= Len(p) /\ SubSeq(s, 1, Len(p)) = p

\* the position of the first occurrence of p in s from k on, 0 if none
RECURSIVE find_from(_, _, _)
find_from(s, p, k) ==
    IF k + Len(p) - 1 > Len(s) THEN 0
    ELSE IF \A m \in 1..Len(p) : s[k + m - 1] = p[m] THEN k
    ELSE find_from(s, p, k + 1)

\* s.find(p) + 1: the position of the first occurrence of p in s, 0 if none
str_find(s, p) == find_from(s, p, 1)

\* p in s
str_contains(s, p) == str_find(s, p) > 0

\* s.isdigit()
str_isdigit(s) == s /= <<>> /\ \A k \in 1..Len(s) : s[k] \in Digits

\* s.split(sep), sep a non-empty str
RECURSIVE str_split(_, _)
str_split(s, sep) ==
    LET k == str_find(s, sep)
    IN  IF k = 0 THEN <<s>>
        ELSE <<SubSeq(s, 1, k - 1)>> \o str_split(SubSeq(s, k + Len(sep), Len(s)), sep)

\* the first position from k on whose character is whitespace (Len(s) + 1 if none)
RECURSIVE token_end(_, _)
token_end(s, k) ==
    IF k <= Len(s) /\ s[k] \notin Whitespace THEN token_end(s, k + 1) ELSE k

\* s.split(): the maximal runs of non-whitespace characters
RECURSIVE str_split_ws(_)
str_split_ws(s) ==
    LET t == str_lstrip(s, Whitespace)
        e == token_end(t, 1)
    IN  IF t = <<>> THEN <<>>
        ELSE <<SubSeq(t, 1, e - 1)>> \o str_split_ws(SubSeq(t, e, Len(t)))

\* sep.join(parts)
RECURSIVE str_join(_, _)
str_join(sep, parts) ==
    IF parts = <<>> THEN <<>>
    ELSE IF Len(parts) = 1 THEN parts[1]
    ELSE parts[1] \o sep \o str_join(sep, Tail(parts))

\* seq[a:b] of Python (0-based, end exclusive, clipped to the list)
slice(seq, a, b) == SubSeq(seq, a + 1, SetMin({b, Len(seq)}))

\* ------------------------------------------------------------------------
\* The literal strings of the parser
\* ------------------------------------------------------------------------

SectionPrefix == <<"#"," ","S","e","c","t","i","o","n"," ">>

HeadingMarker == <<"#","#","#","#","#","#">>

SectionIncludes ==
    <<"T","h","i","s"," ","s","e","c","t","i","o","n"," ","i","n","c","l","u","d","e","s">>

DivisionIncludes ==
    <<"T","h","i","s"," ","d","i","v","i","s","i","o","n"," ","i","n","c","l","u","d","e","s">>

GroupIncludes ==
    <<"T","h","i","s"," ","g","r","o","u","p"," ","i","n","c","l","u","d","e","s">>

ClassIncludes ==
    <<"T","h","i","s"," ","c","l","a","s","s"," ","i","n","c","l","u","d","e","s",":">>

ClassExcludes ==
    <<"T","h","i","s"," ","c","l","a","s","s"," ","e","x","c","l","u","d","e","s",":">>

\* ------------------------------------------------------------------------
\* The four regular expressions, matched with re.match
\* ------------------------------------------------------------------------

NoMatchResult == [matched |-> FALSE, code |-> <<>>, name |-> <<>>]

\* \s{min,}(.+)$ on the rest of a line: the greedy run of whitespace gives one
\* character back to (.+) when nothing else is left for it
re_name(s, min) ==
    LET rest == str_lstrip(s, Whitespace)
        n == Len(s) - Len(rest)
    IN  IF rest /= <<>> THEN [matched |-> n >= min, name |-> rest]
        ELSE [matched |-> n >= min + 1,
              name |-> IF s = <<>> THEN <<>> ELSE <<s[Len(s)]>>]

\* ^# Section ([A-Z])\s*[dash]\s*(.+)$ with dash an en dash, an em dash or a hyphen
section_pattern(line) ==
    LET p == Len(SectionPrefix)
        after == str_lstrip(SubSeq(line, p + 2, Len(line)), Whitespace)
        nm == re_name(Tail(after), 0)
    IN  IF /\ str_startswith(line, SectionPrefix)
           /\ Len(line) > p
           /\ line[p + 1] \in Upper
           /\ after /= <<>>
           /\ Head(after) \in Dashes
           /\ nm.matched
        THEN [matched |-> TRUE, code |-> <<line[p + 1]>>, name |-> nm.name]
        ELSE NoMatchResult

\* (?:######\s*)? at the start of a line: what is left for the code
re_unprefixed(line) ==
    IF str_startswith(line, HeadingMarker)
    THEN str_lstrip(SubSeq(line, Len(HeadingMarker) + 1, Len(line)), Whitespace)
    ELSE line

\* the code shapes \d{2}, \d{2}\.\d{1}, \d{2}\.\d{2} at the start of s
is_code(s, width) ==
    /\ Len(s) >= width
    /\ s[1] \in Digits
    /\ s[2] \in Digits
    /\ width > 2 => s[3] = "."
    /\ \A k \in 4..width : s[k] \in Digits

\* ^(?:######\s*)?(<code>)\s+(.+)$ for a code of the given width
heading_pattern(line, width) ==
    LET s == re_unprefixed(line)
        nm == re_name(SubSeq(s, width + 1, Len(s)), 1)
    IN  IF is_code(s, width) /\ nm.matched
        THEN [matched |-> TRUE, code |-> SubSeq(s, 1, width), name |-> nm.name]
        ELSE NoMatchResult

division_pattern(line) == heading_pattern(line, 2)

group_pattern(line) == heading_pattern(line, 4)

class_pattern(line) == heading_pattern(line, 5)

\* ------------------------------------------------------------------------
\* parse_nace_activities: its helpers
\* ------------------------------------------------------------------------

\* range(i + 1, min(i + 10, len(lines)))
DescriptionWindow == 10

\* lines[j : j + 3]
DescriptionSpan == 3

\* j < i + 50
ActivityWindow == 50

EmptyAncestor == [code |-> <<>>, name |-> <<>>, description |-> <<>>]

\* which branch of the if/elif chain a stripped line takes
branch(ln) ==
    IF ln = <<>> \/ str_isdigit(ln) THEN "skip"
    ELSE IF section_pattern(ln).matched THEN "section"
    ELSE IF division_pattern(ln).matched THEN "division"
    ELSE IF group_pattern(ln).matched THEN "group"
    ELSE IF class_pattern(ln).matched THEN "class"
    ELSE "none"

\* faulty variant: the description scan ends at the next heading
scan_description_until_heading(ls, idx, marker) ==
    LET desc_text(jj) == str_join(<<" ">>, slice(ls, jj, jj + DescriptionSpan))
        last == SetMin({idx + DescriptionWindow, Len(ls)}) - 1
        found == {jj \in (idx + 1)..last :
                     /\ str_contains(desc_text(jj), marker)
                     /\ \A n \in (idx + 1)..jj :
                            branch(str_strip(ls[n + 1]))
                                \notin {"section", "division", "group"}}
    IN  IF found = {} THEN <<>>
        ELSE str_strip(str_split(str_split(desc_text(SetMin(found)), marker)[2], <<"\n">>)[1])

\* the description scan after the heading at index idx: the first window of
\* three lines, joined by spaces, that holds the marker
scan_description(ls, idx, marker) ==
    LET desc_text(jj) == str_join(<<" ">>, slice(ls, jj, jj + DescriptionSpan))
        last == SetMin({idx + DescriptionWindow, Len(ls)}) - 1
        found == {jj \in (idx + 1)..last : str_contains(desc_text(jj), marker)}
    IN  IF found = {} THEN <<>>
        ELSE str_strip(str_split(str_split(desc_text(SetMin(found)), marker)[2], <<"\n">>)[1])

\* faulty variant: the seen-set is not consulted
is_new_class_unseen(class_code, processed) ==
    Len(class_code) = 5 /\ class_code[3] = "."

\* len(class_code) == 5 and class_code[2] == "." and class_code not in processed_codes
is_new_class(class_code, processed) ==
    Len(class_code) = 5 /\ class_code[3] = "." /\ class_code \notin processed

\* class_code.split('.')[0]
division_of(class_code) == str_split(class_code, <<".">>)[1]

\* faulty variant: class_code[:3]
group_of_three(class_code) == slice(class_code, 0, 3)

\* class_code[:4]
group_of(class_code) == slice(class_code, 0, 4)

\* faulty variant: name and description of the previous one are kept
recovered_keeping_name(current, code) == [current EXCEPT !.code = code]

\* the current division or group after a class heading of the given prefix
recovered(current, code) ==
    IF code /= current.code
    THEN [code |-> code, name |-> <<>>, description |-> <<>>]
    ELSE current

\* faulty variant: the section test is left out
has_section_always(section) == TRUE

\* if current_section["code"]
has_section(section) == section.code /= <<>>

\* the dict built for a class heading
new_activity(section, division, group, class_match) ==
    [section_code |-> section.code,
     section_name |-> section.name,
     section_description |-> section.description,
     division_code |-> division_of(class_match.code),
     division_name |-> division.name,
     division_description |-> division.description,
     group_code |-> group_of(class_match.code),
     group_name |-> group.name,
     group_description |-> group.description,
     class_code |-> class_match.code,
     class_name |-> class_match.name,
     class_description |-> <<>>,
     included_activities |-> <<>>,
     excluded_activities |-> <<>>]

\* faulty variant: the activity loop is bounded by the document only
window_unbounded(jj, idx, n) == jj < n

\* while j < len(lines) and j < i + 50
window_open(jj, idx, n) == jj < n /\ jj < idx + ActivityWindow

\* faulty variant: only a '#' line ends the activity loop
window_break_hash_only(next_line) == str_startswith(next_line, <<"#">>)

\* faulty variant: a division or group heading ends the loop as well
window_break_any_heading(next_line) ==
    \/ branch(next_line) \in {"division", "group", "class"}
    \/ str_startswith(next_line, <<"#">>)

\* the break of the activity loop: another class heading, or a '#' line
window_break(next_line) ==
    \/ /\ class_pattern(next_line).matched
       /\ Len(str_split_ws(next_line)[1]) = 5
    \/ str_startswith(next_line, <<"#">>)

\* the mode after the two marker tests
next_mode(md, next_line) ==
    IF str_contains(next_line, ClassIncludes) THEN "includes"
    ELSE IF str_contains(next_line, ClassExcludes) THEN "excludes"
    ELSE md

\* elif not next_line: continue
blank_continue(next_line) ==
    /\ ~str_contains(next_line, ClassIncludes)
    /\ ~str_contains(next_line, ClassExcludes)
    /\ next_line = <<>>

\* faulty variant: the bullet marker is kept
activity_text_keep_dash(next_line) == str_rstrip(next_line, {":"})

\* next_line.lstrip("- ").rstrip(":")
activity_text(next_line) == str_rstrip(str_lstrip(next_line, {"-", " "}), {":"})

\* next_line.lstrip("* ").strip()
subactivity_text(next_line) == str_strip(str_lstrip(next_line, {"*", " "}))

\* truth value of a str-or-None
truthy(v) == v /= None /\ v /= <<>>

\* the key of the list the mode selects
mode_list(md) == IF md = "includes" THEN "included_activities" ELSE "excluded_activities"

\* acts[-1]["subactivities"].append(sub) on a non-empty list
append_subactivity(acts, sub) ==
    [acts EXCEPT ![Len(acts)].subactivities = Append(@, sub)]

\* faulty variant: the list is returned in document order
unsorted(acts) == acts

\* activities.sort(key=lambda x: x["class_code"]): a stable sort
RECURSIVE sort_activities(_)
sort_activities(acts) ==
    IF acts = <<>> THEN <<>>
    ELSE LET rest == sort_activities(SubSeq(acts, 1, Len(acts) - 1))
             x == acts[Len(acts)]
             before == {k \in 1..Len(rest) : ~str_lt(x.class_code, rest[k].class_code)}
             at == IF before = {} THEN 0 ELSE CHOOSE k \in before : \A m \in before : m <= k
         IN  SubSeq(rest, 1, at) \o <<x>> \o SubSeq(rest, at + 1, Len(rest))

\* ------------------------------------------------------------------------
\* Input documents
\* ------------------------------------------------------------------------

LnSectionA == <<"#"," ","S","e","c","t","i","o","n"," ","A"," ","-"," ","A","g">>

LnSectionB == <<"#"," ","S","e","c","t","i","o","n"," ","B"," ","ENDASH"," ","M","i">>

LnDivision01 == <<"0","1"," ","C","r","o","p">>

LnDivision02 == <<"#","#","#","#","#","#"," ","0","2"," ","F","o">>

LnGroup011 == <<"0","1",".","1"," ","G","r">>

LnClass0111 == <<"0","1",".","1","1"," ","C","e">>

LnClass0112 == <<"#","#","#","#","#","#"," ","0","1",".","1","2"," ","R","i">>

LnClass0210 == <<"0","2",".","1","0"," ","S","i">>

LnIncludes == <<"T","h","i","s"," ","c","l","a","s","s"," ","i","n","c","l","u","d","e","s",":">>

LnExcludes == <<"T","h","i","s"," ","c","l","a","s","s"," ","e","x","c","l","u","d","e","s",":">>

LnDash == <<" ","-"," ","w","h","e","a","t",":">>

LnStar == <<"*"," ","w","i","n","t","e","r"," ">>

LnBlank == <<>>

LnDigits == <<"1","2">>

LnText == <<"n","o","t","e">>

LnHash == <<"#","#"," ","h">>

LnDashLate == <<"-"," ","l","a","t","e">>

LnStarLate == <<"*"," ","l","a","t","e","r">>

\* the twelve lines of the end-to-end scenario
ExampleLines ==
    <<<<"#"," ","S","e","c","t","i","o","n"," ","A"," ","ENDASH"," ","A","g","r","i","c","u","l","t","u","r","e">>,
      <<"T","h","i","s"," ","s","e","c","t","i","o","n"," ","i","n","c","l","u","d","e","s"," ","f","a","r","m","i","n","g"," ","a","c","t","i","v","i","t","i","e","s",".">>,
      <<"0","1"," ","C","r","o","p"," ","p","r","o","d","u","c","t","i","o","n">>,
      <<"T","h","i","s"," ","d","i","v","i","s","i","o","n"," ","i","n","c","l","u","d","e","s"," ","g","r","o","w","i","n","g"," ","o","f"," ","c","r","o","p","s",".">>,
      <<"0","1",".","1"," ","G","r","o","w","i","n","g"," ","o","f"," ","n","o","n","-","p","e","r","e","n","n","i","a","l"," ","c","r","o","p","s">>,
      <<"0","1",".","1","1"," ","G","r","o","w","i","n","g"," ","o","f"," ","c","e","r","e","a","l","s">>,
      <<"T","h","i","s"," ","c","l","a","s","s"," ","i","n","c","l","u","d","e","s",":">>,
      <<"-"," ","G","r","o","w","i","n","g"," ","o","f"," ","w","h","e","a","t">>,
      <<"*"," ","W","i","n","t","e","r"," ","w","h","e","a","t">>,
      <<"T","h","i","s"," ","c","l","a","s","s"," ","e","x","c","l","u","d","e","s",":">>,
      <<"-"," ","G","r","o","w","i","n","g"," ","o","f"," ","s","u","g","a","r"," ","c","a","n","e">>,
      <<"0","1",".","1","2"," ","G","r","o","w","i","n","g"," ","o","f"," ","r","i","c","e">>>>

\* longest run of lines drawn freely from the heading vocabulary
MaxHeadingLines == 3

\* longest run of lines drawn freely from the activity vocabulary
MaxActivityLines == 4

\* how far around the activity window's end the late bullets are placed
MaxPad == 2

HeadingVocabulary ==
    {LnSectionA, LnDivision01, LnDivision02, LnGroup011,
     LnClass0111, LnClass0112, LnClass0210, LnDigits}

ActivityVocabulary ==
    {LnIncludes, LnExcludes, LnDash, LnStar, LnBlank, LnClass0112}

SeqsUpTo(S, n) == UNION {[1..k -> S] : k \in 0..n}

\* documents of headings in any order
HeadingDocs == SeqsUpTo(HeadingVocabulary, MaxHeadingLines)

\* a section, a class heading and any activity lines after it
ActivityDocs ==
    {<<LnSectionA, LnClass0111>> \o body :
        body \in SeqsUpTo(ActivityVocabulary, MaxActivityLines)}

\* a class whose block runs past the activity window: a bullet and a
\* sub-bullet ActivityWindow + d and ActivityWindow + d + 1 lines after the
\* heading, with only filler lines in between
LongDocs ==
    {<<LnSectionA, LnClass0111, LnIncludes, LnDash>>
        \o [k \in 1..(ActivityWindow - 3 + d) |-> filler]
        \o <<LnDashLate, LnStarLate>> :
        d \in (0 - MaxPad)..MaxPad, filler \in {LnBlank, LnText}}

LnSectionDesc ==
    <<"T","h","i","s"," ","s","e","c","t","i","o","n"," ","i","n","c","l","u","d","e","s"," ","c","r","o","p","s">>

LnDivisionDesc ==
    <<" ","T","h","i","s"," ","d","i","v","i","s","i","o","n"," ","i","n","c","l","u","d","e","s"," ","r","i","c","e"," ">>

LnGroupDesc ==
    <<"T","h","i","s"," ","g","r","o","u","p"," ","i","n","c","l","u","d","e","s",":"," ","o","a","t","s">>

LnDashEmpty == <<"-">>

\* how many filler lines lie between a heading and its marker line
DescPads ==
    {0} \cup ((DescriptionWindow - MaxPad)..(DescriptionWindow + MaxPad))

\* a heading of each level and the marker line of its level
DescHeads ==
    {[head |-> <<LnSectionA>>, marker |-> LnSectionDesc],
     [head |-> <<LnDivision01>>, marker |-> LnDivisionDesc],
     [head |-> <<LnDivision01, LnGroup011>>, marker |-> LnGroupDesc]}

\* a heading, filler lines, the marker line of its level and, after it,
\* nothing or a line of text
DescDocs ==
    {h.head \o [k \in 1..n |-> filler] \o <<h.marker>> \o after :
        h \in DescHeads, n \in DescPads, filler \in {LnBlank, LnText},
        after \in {<<>>, <<LnText>>}}

\* longest run of lines drawn freely from the stop vocabulary
MaxStopLines == 3

StopVocabulary == {LnDash, LnBlank, LnHash, LnClass0111, LnClass0210}

\* a class in includes mode followed by bullets, blank lines and stop lines
StopDocs ==
    {<<LnSectionA, LnClass0111, LnIncludes>> \o body :
        body \in SeqsUpTo(StopVocabulary, MaxStopLines)}

\* longest run of lines drawn freely from the bullet vocabulary
MaxBulletLines == 2

BulletVocabulary == {LnDashEmpty, LnDash, LnStar}

\* a class in includes mode followed by bullets, some of them without text
BulletDocs ==
    {<<LnSectionA, LnClass0111, LnIncludes>> \o body :
        body \in SeqsUpTo(BulletVocabulary, MaxBulletLines)}

\* a class whose block switches to excludes and back to includes
SwitchBackLines ==
    <<LnSectionA, LnClass0111, LnIncludes, LnDash, LnStar, LnExcludes,
      LnDashLate, LnIncludes, LnStarLate>>

LnGroup012 == <<"0","1",".","2"," ","G","x">>

\* a class whose division heading was followed by another division heading
DivisionRecoveryLines == <<LnSectionA, LnDivision01, LnDivision02, LnClass0111>>

\* a class whose group heading was followed by another group heading
GroupRecoveryLines ==
    <<LnSectionA, LnDivision01, LnGroup011, LnGroup012, LnClass0111>>

\* a class heading repeated under another division, followed by a bullet
RepeatedClassLines ==
    <<LnSectionA, LnClass0111, LnIncludes, LnDivision02, LnClass0111, LnDash>>

\* bullets of a class behind a division or a group heading without '#'
BehindDivisionLines ==
    <<LnSectionA, LnClass0111, LnIncludes, LnDivision01, LnDash, LnStar>>

BehindGroupLines ==
    <<LnSectionA, LnDivision01, LnClass0111, LnExcludes, LnGroup012, LnDash,
      LnStar>>

\* two headings of one level and, behind them, one marker line of the level
SharedSectionDescLines == <<LnSectionA, LnSectionB, LnSectionDesc>>

SharedDivisionDescLines == <<LnDivision01, LnDivision02, LnDivisionDesc>>

SharedGroupDescLines == <<LnDivision01, LnGroup011, LnGroup012, LnGroupDesc>>

FixedDocs ==
    {ExampleLines, SwitchBackLines, DivisionRecoveryLines, GroupRecoveryLines,
     RepeatedClassLines, BehindDivisionLines, BehindGroupLines,
     SharedSectionDescLines, SharedDivisionDescLines, SharedGroupDescLines}

DocLines ==
    HeadingDocs \cup ActivityDocs \cup LongDocs \cup DescDocs \cup StopDocs
        \cup BulletDocs \cup FixedDocs

\* the text of a document given by its lines
doc_text(ls) == str_join(<<"\n">>, ls)

Docs == {doc_text(ls) : ls \in DocLines}

\* ------------------------------------------------------------------------
\* parse_nace_activities as a state machine
\* ------------------------------------------------------------------------

VARIABLES
    text,               \* the argument of the running call
    lines,              \* text.split("\n")
    i,                  \* index of the main loop (0-based, as in the code)
    activities,         \* the list being built
    processed_codes,    \* the set of class codes already appended
    current_section,
    current_division,
    current_group,
    activity,           \* the dict of the class heading being processed
    j,                  \* index of the activity loop
    mode,               \* "None", "includes" or "excludes"
    current_activity,   \* None or the text of the last '-' bullet
    pc,                 \* "scan", "activities", "done", "raised"; "idle" outside parse
    result,             \* the returned list, once pc = "done"
    emitted,            \* history: for each appended dict, the index of its heading
    calls,              \* history: how many calls were started
    first_text,         \* history: the text of the first call
    first_result,       \* history: how the first call ended and what it returned
    interleaved,        \* history: a call on another text followed the first call
    given,              \* the argument of validate_nace_activities
    valid,              \* its return value
    report,             \* what it printed
    vpc,                \* "idle", "called", "returned"
    split_text,         \* the argument of split_nace_by_sections
    split_lines,        \* its lines = text.split("\n")
    taken,              \* how many of them its loop has taken
    sections,           \* the list it builds
    split_current_section,  \* its current_section: None or a name
    current_content,    \* the lines of the section being collected
    spc,                \* "idle", "loop", "returned"
    given_sections,     \* the argument sections of write_section_files
    written,            \* how many of them its loop has written
    files,              \* the files of output_dir: file name -> content
    wpc,                \* "idle", "loop", "returned"
    ppc,                \* where create_policy / generate_policy stands
    entered_by,         \* "create_policy", or "generate_policy" called alone
    company_row,        \* the committed Company: "absent", "no_email", "with_email"
    stored,             \* the committed Document row
    policy_session,     \* the session of generate_policy: "none", "open", "closed"
    document,           \* its local document: NoDocument or the loaded object
    company,            \* its local company: "absent" or the loaded row
    steps,              \* the calls of generate_policy that have returned
    raising             \* an exception is propagating

parse_vars ==
    <<text, lines, i, activities, processed_codes, current_section,
      current_division, current_group, activity, j, mode, current_activity,
      pc, result>>

history_vars == <<emitted, calls, first_text, first_result, interleaved>>

validate_vars == <<given, valid, report, vpc>>

split_vars ==
    <<split_text, split_lines, taken, sections, split_current_section,
      current_content, spc>>

write_vars == <<given_sections, written, files, wpc>>

policy_vars ==
    <<ppc, entered_by, company_row, stored, policy_session, document, company,
      steps, raising>>

vars ==
    <<parse_vars, history_vars, validate_vars, split_vars, write_vars,
      policy_vars>>

class_locals == <<activity, j, mode, current_activity>>

ancestors == <<current_section, current_division, current_group>>

\* a dict-valued local that is not bound yet
Unbound == new_activity(EmptyAncestor, EmptyAncestor, EmptyAncestor, NoMatchResult)

NoReport == [total |-> 0, sections |-> {}, divisions |-> {}, groups |-> {},
             classes |-> {}, section_counts |-> <<>>]

ValidateIdle ==
    /\ given = <<>>
    /\ valid = FALSE
    /\ report = NoReport
    /\ vpc = "idle"

Pending == [outcome |-> "pending", value |-> <<>>]

SplitIdle ==
    /\ split_text = <<>>
    /\ split_lines = <<>>
    /\ taken = 0
    /\ sections = <<>>
    /\ split_current_section = None
    /\ current_content = <<>>
    /\ spc = "idle"

\* no file has been written
NoFiles == [f \in {} |-> <<>>]

\* write_section_files is not running
WriteIdle ==
    /\ given_sections = <<>>
    /\ written = 0
    /\ files = NoFiles
    /\ wpc = "idle"

\* no Document row
NoDocument ==
    [status |-> "absent", download_url |-> "None", content |-> "None",
     filename |-> "None"]

\* neither create_policy nor generate_policy is running
PolicyIdle ==
    /\ ppc = "idle"
    /\ entered_by = "none"
    /\ company_row = "absent"
    /\ stored = NoDocument
    /\ policy_session = "none"
    /\ document = NoDocument
    /\ company = "absent"
    /\ steps = <<>>
    /\ raising = FALSE

\* the locals of a call at its start
initial_activities == <<>>

\* faulty variant: the seen-set outlives the call
kept_processed_codes == processed_codes

initial_processed_codes == {}

initial_ancestor == EmptyAncestor

\* the state at the start of a call on document d
Enter(d) ==
    /\ text' = d
    /\ lines' = str_split(d, <<"\n">>)
    /\ i' = 0
    /\ activities' = initial_activities
    /\ processed_codes' = initial_processed_codes
    /\ current_section' = initial_ancestor
    /\ current_division' = initial_ancestor
    /\ current_group' = initial_ancestor
    /\ activity' = Unbound
    /\ j' = 0
    /\ mode' = "None"
    /\ current_activity' = None
    /\ pc' = "scan"
    /\ result' = <<>>

\* the state when the first call on a document of D starts
InitWith(D) ==
    /\ text \in D
    /\ lines = str_split(text, <<"\n">>)
    /\ i = 0
    /\ activities = <<>>
    /\ processed_codes = {}
    /\ current_section = EmptyAncestor
    /\ current_division = EmptyAncestor
    /\ current_group = EmptyAncestor
    /\ activity = Unbound
    /\ j = 0
    /\ mode = "None"
    /\ current_activity = None
    /\ pc = "scan"
    /\ result = <<>>
    /\ emitted = {}
    /\ calls = 1
    /\ first_text = text
    /\ first_result = Pending
    /\ interleaved = FALSE
    /\ ValidateIdle
    /\ SplitIdle
    /\ WriteIdle
    /\ PolicyIdle

Init == InitWith(Docs)

\* the main loop is at a line
Scanning == pc = "scan" /\ i < Len(lines)

\* line = lines[i].strip()
line == str_strip(lines[i + 1])

\* faulty variant: the main loop stays on its line
Stay == i' = i

\* i += 1
Advance == i' = i + 1

\* if not line or line.isdigit(): i += 1; continue
SkipLine ==
    /\ Scanning
    /\ branch(line) = "skip"
    /\ Advance
    /\ UNCHANGED <<text, lines, activities, processed_codes, ancestors,
                   class_locals, pc, result, history_vars, validate_vars, split_vars, write_vars,
                   policy_vars>>

\* a section heading
\* faulty variant: a section heading clears the division and the group
reset_by_section(ancestor) == EmptyAncestor

\* the section branch assigns current_section only
kept_by_section(ancestor) == ancestor

MatchSection ==
    /\ Scanning
    /\ branch(line) = "section"
    /\ current_section' =
          [code |-> section_pattern(line).code,
           name |-> section_pattern(line).name,
           description |-> scan_description(lines, i, SectionIncludes)]
    /\ current_division' = kept_by_section(current_division)
    /\ current_group' = kept_by_section(current_group)
    /\ Advance
    /\ UNCHANGED <<text, lines, activities, processed_codes, class_locals, pc,
                   result, history_vars, validate_vars, split_vars, write_vars,
                   policy_vars>>

\* a division heading
MatchDivision ==
    /\ Scanning
    /\ branch(line) = "division"
    /\ LET div_code == division_pattern(line).code
       IN  current_division' =
              IF Len(div_code) = 2 /\ str_isdigit(div_code)
              THEN [code |-> div_code,
                    name |-> division_pattern(line).name,
                    description |-> scan_description(lines, i, DivisionIncludes)]
              ELSE current_division
    /\ Advance
    /\ UNCHANGED <<text, lines, activities, processed_codes, current_section,
                   current_group, class_locals, pc, result, history_vars,
                   validate_vars, split_vars, write_vars, policy_vars>>

\* faulty variant: every group heading is accepted
group_always_accepted(group_code, division) == TRUE

\* group_code.split('.')[0] == current_division["code"]
group_accepted(group_code, division) == str_split(group_code, <<".">>)[1] = division.code

\* a group heading
MatchGroup ==
    /\ Scanning
    /\ branch(line) = "group"
    /\ current_group' =
          IF group_accepted(group_pattern(line).code, current_division)
          THEN [code |-> group_pattern(line).code,
                name |-> group_pattern(line).name,
                description |-> scan_description(lines, i, GroupIncludes)]
          ELSE current_group
    /\ Advance
    /\ UNCHANGED <<text, lines, activities, processed_codes, current_section,
                   current_division, class_locals, pc, result, history_vars,
                   validate_vars, split_vars, write_vars, policy_vars>>

\* faulty variant: the mode of the previous class is kept
carried_mode == mode

\* mode = None
initial_mode == "None"

\* faulty variant: a class dropped for lack of a section counts as seen
seen_with_dropped(processed, class_code) == processed \cup {class_code}

\* processed_codes.add(class_code) lies inside 'if current_section["code"]':
\* a class dropped for lack of a section leaves the seen-set as it is
seen_after_drop(processed, class_code) == processed

\* a class heading: the code is checked, division and group are recovered
\* from it and, inside a section, the dict is built and the activity loop begins
MatchClass ==
    /\ Scanning
    /\ branch(line) = "class"
    /\ LET class_match == class_pattern(line)
           class_code == class_match.code
           division == recovered(current_division, division_of(class_code))
           group == recovered(current_group, group_of(class_code))
       IN  IF ~is_new_class(class_code, processed_codes)
           THEN /\ Advance
                /\ UNCHANGED <<current_division, current_group, class_locals, pc,
                               processed_codes>>
           ELSE /\ current_division' = division
                /\ current_group' = group
                /\ IF has_section(current_section)
                   THEN /\ activity' = new_activity(current_section, division, group, class_match)
                        /\ j' = i + 1
                        /\ mode' = initial_mode
                        /\ current_activity' = None
                        /\ pc' = "activities"
                        /\ UNCHANGED <<i, processed_codes>>
                   ELSE /\ processed_codes' = seen_after_drop(processed_codes, class_code)
                        /\ Advance
                        /\ UNCHANGED <<class_locals, pc>>
    /\ UNCHANGED <<text, lines, activities, current_section,
                   result, history_vars, validate_vars, split_vars, write_vars,
                   policy_vars>>

\* next_line = lines[j].strip()
next_line == str_strip(lines[j + 1])

\* the activity loop goes on to its body
InWindow ==
    /\ pc = "activities"
    /\ window_open(j, i, Len(lines))
    /\ ~window_break(next_line)

\* elif next_line.startswith("*") and current_activity
star_attaches(next, cur_activity) ==
    str_startswith(next, <<"*">>) /\ truthy(cur_activity)

\* one iteration of the activity loop; an index into an empty list raises IndexError
ScanActivityLine ==
    /\ InWindow
    /\ LET md == next_mode(mode, next_line)
           key == mode_list(md)
       IN  /\ mode' = md
           /\ IF blank_continue(next_line)
              THEN /\ j' = j + 1
                   /\ UNCHANGED <<activity, current_activity, pc>>
              ELSE IF md /= "None" /\ str_startswith(next_line, <<"-">>)
              THEN /\ current_activity' = activity_text(next_line)
                   /\ activity' =
                         [activity EXCEPT ![key] =
                             Append(@, [activity |-> activity_text(next_line),
                                        subactivities |-> <<>>])]
                   /\ j' = j + 1
                   /\ UNCHANGED pc
              ELSE IF md /= "None" /\ star_attaches(next_line, current_activity)
              THEN IF activity[key] = <<>>
                   THEN /\ pc' = "raised"
                        /\ UNCHANGED <<activity, current_activity, j>>
                   ELSE /\ activity' =
                             [activity EXCEPT ![key] =
                                 append_subactivity(@, subactivity_text(next_line))]
                        /\ j' = j + 1
                        /\ UNCHANGED <<current_activity, pc>>
              ELSE /\ j' = j + 1
                   /\ UNCHANGED <<activity, current_activity, pc>>
    /\ UNCHANGED <<text, lines, i, activities, processed_codes, ancestors,
                   result, history_vars, validate_vars, split_vars, write_vars,
                   policy_vars>>

\* faulty variant: the main loop resumes behind the line that ended the window
resume_behind_window(idx, jj) == jj + 1

\* i += 1 after the activity loop: the main loop resumes at the line after
\* the class heading, whatever the activity loop has read
resume_index(idx, jj) == idx + 1

\* the activity loop ends (window exhausted, or break): the dict is appended,
\* its code is marked as processed and the main loop moves on
EndActivities ==
    /\ pc = "activities"
    /\ IF window_open(j, i, Len(lines)) THEN window_break(next_line) ELSE TRUE
    /\ activities' = Append(activities, activity)
    /\ processed_codes' = processed_codes \cup {activity.class_code}
    /\ emitted' = emitted \cup {[class_code |-> activity.class_code, at |-> i]}
    /\ i' = resume_index(i, j)
    /\ pc' = "scan"
    /\ UNCHANGED <<text, lines, ancestors, class_locals, result, calls,
                   first_text, first_result, interleaved, validate_vars, split_vars, write_vars,
                   policy_vars>>

\* a line that matches nothing
NoMatch ==
    /\ Scanning
    /\ branch(line) = "none"
    /\ Advance
    /\ UNCHANGED <<text, lines, activities, processed_codes, ancestors,
                   class_locals, pc, result, history_vars, validate_vars, split_vars, write_vars,
                   policy_vars>>

\* the end of the main loop: sort in place and return
Return ==
    /\ pc = "scan"
    /\ i >= Len(lines)
    /\ activities' = sort_activities(activities)
    /\ result' = activities'
    /\ pc' = "done"
    /\ UNCHANGED <<text, lines, i, processed_codes, ancestors, class_locals,
                   history_vars, validate_vars, split_vars, write_vars,
                   policy_vars>>

Next ==
    \/ SkipLine
    \/ MatchSection
    \/ MatchDivision
    \/ MatchGroup
    \/ MatchClass
    \/ ScanActivityLine
    \/ EndActivities
    \/ NoMatch
    \/ Return

Spec == Init /\ [][Next]_vars

\* the call has ended: it returned, or it raised
Terminated == pc \in {"done", "raised"}

\* the interpreter does not stop in the middle of a call: steps go on being
\* taken until the call has ended.  A step is possible exactly as long as
\* the call has not ended, so this is weak fairness of Next, written with
\* that state predicate in the place of the enabledness of a step
Progress == []<>Terminated \/ []<><<Next>>_vars

SpecFair == Spec /\ Progress

\* ------------------------------------------------------------------------
\* Successive calls of parse_nace_activities
\* ------------------------------------------------------------------------

\* how many calls are made one after the other
MaxCalls == 3

\* longest run of lines drawn freely from the call vocabulary
MaxCallLines == 2

CallVocabulary == {LnSectionA, LnDivision01, LnClass0111}

\* a class whose excludes list is empty when a sub-bullet arrives
RaisingLines == <<LnSectionA, LnClass0111, LnIncludes, LnDash, LnExcludes, LnStar>>

CallDocLines ==
    SeqsUpTo(CallVocabulary, MaxCallLines)
        \cup {ExampleLines, RaisingLines,
              <<LnSectionA, LnDigits, LnClass0112, LnIncludes, LnDash, LnText>>}

CallDocs == {doc_text(ls) : ls \in CallDocLines}

\* the previous call has ended (returned or raised) and the next one starts
Call ==
    /\ pc \in {"done", "raised"}
    /\ calls < MaxCalls
    /\ \E d \in CallDocs : Enter(d)
    /\ calls' = calls + 1
    /\ first_result' =
          IF calls = 1 THEN [outcome |-> pc, value |-> result] ELSE first_result
    /\ interleaved' = (interleaved \/ text /= first_text)
    /\ emitted' = {}
    /\ UNCHANGED <<first_text, validate_vars, split_vars, write_vars, policy_vars>>

InitCalls == InitWith(CallDocs)

NextCalls == Next \/ Call

SpecCalls == InitCalls /\ [][NextCalls]_vars

\* ------------------------------------------------------------------------
\* validate_nace_activities
\* ------------------------------------------------------------------------

\* return total_classes == 615
ExpectedTotal == 615

\* set(a[key] for a in activities)
unique_codes(acts, key) == {acts[k][key] : k \in 1..Len(acts)}

\* section_counts: for each section code, how many dicts carry it
section_counts(acts) ==
    [c \in unique_codes(acts, "section_code") |->
        Cardinality({k \in 1..Len(acts) : acts[k].section_code = c})]

\* everything the function prints
printed(acts) ==
    [total |-> Len(acts),
     sections |-> unique_codes(acts, "section_code"),
     divisions |-> unique_codes(acts, "division_code"),
     groups |-> unique_codes(acts, "group_code"),
     classes |-> unique_codes(acts, "class_code"),
     section_counts |-> section_counts(acts)]

\* faulty variant: the distinct class codes are counted
validation_result_by_classes(acts) ==
    Cardinality(unique_codes(acts, "class_code")) = ExpectedTotal

\* the return value
validation_result(acts) == Len(acts) = ExpectedTotal

\* how far around the expected total the lengths of the given lists go
MaxDelta == 2

\* the longest short list given
MaxSmall == 3

DigitSeq == <<"0", "1", "2", "3", "4", "5", "6", "7", "8", "9">>

UpperSeq ==
    <<"A", "B", "C", "D", "E", "F", "G", "H", "I", "J", "K", "L", "M",
      "N", "O", "P", "Q", "R", "S", "T", "U", "V", "W", "X", "Y", "Z">>

\* the class code DD.DD that spells the number n
code_of(n) ==
    <<DigitSeq[((n \div 1000) % 10) + 1], DigitSeq[((n \div 100) % 10) + 1], ".",
      DigitSeq[((n \div 10) % 10) + 1], DigitSeq[(n % 10) + 1]>>

\* a list of n dicts with ns distinct section codes and nc distinct class codes
given_list(n, ns, nc) ==
    [k \in 1..n |->
        [section_code |-> <<UpperSeq[(k % ns) + 1]>>,
         division_code |-> SubSeq(code_of(k % nc), 1, 2),
         group_code |-> SubSeq(code_of(k % nc), 1, 4),
         class_code |-> code_of(k % nc)]]

GivenLengths ==
    (0..MaxSmall) \cup ((ExpectedTotal - MaxDelta)..(ExpectedTotal + MaxDelta))

GivenLists ==
    {given_list(n, ns, nc) :
        n \in GivenLengths, ns \in {1, 2, 3, 21},
        nc \in {1, ExpectedTotal, ExpectedTotal + MaxDelta + 1}}

InitValidate ==
    /\ text = <<>>
    /\ lines = <<>>
    /\ i = 0
    /\ activities = <<>>
    /\ processed_codes = {}
    /\ current_section = EmptyAncestor
    /\ current_division = EmptyAncestor
    /\ current_group = EmptyAncestor
    /\ activity = Unbound
    /\ j = 0
    /\ mode = "None"
    /\ current_activity = None
    /\ pc = "idle"
    /\ result = <<>>
    /\ emitted = {}
    /\ calls = 0
    /\ first_text = <<>>
    /\ first_result = Pending
    /\ interleaved = FALSE
    /\ ValidateIdle
    /\ SplitIdle
    /\ WriteIdle
    /\ PolicyIdle

\* the function is called on a list
CallValidate ==
    /\ vpc = "idle"
    /\ \E acts \in GivenLists : given' = acts
    /\ vpc' = "called"
    /\ UNCHANGED <<valid, report, parse_vars, history_vars, split_vars, write_vars,
                   policy_vars>>

\* the body of the function: it reads the list, prints and returns
Validate ==
    /\ vpc = "called"
    /\ report' = printed(given)
    /\ valid' = validation_result(given)
    /\ vpc' = "returned"
    /\ UNCHANGED <<given, parse_vars, history_vars, split_vars, write_vars,
                   policy_vars>>

NextValidate == CallValidate \/ Validate

SpecValidate == InitValidate /\ [][NextValidate]_vars

\* ------------------------------------------------------------------------
\* split_nace_by_sections
\* ------------------------------------------------------------------------

\* ^# Section [A-Z][ \t]*[dash], matched with re.match
split_section_pattern(ln) ==
    LET p == Len(SectionPrefix)
        after == str_lstrip(SubSeq(ln, p + 2, Len(ln)), {" ", "\t"})
    IN  /\ str_startswith(ln, SectionPrefix)
        /\ Len(ln) > p
        /\ ln[p + 1] \in Upper
        /\ after /= <<>>
        /\ Head(after) \in Dashes

\* for separator in [en dash, em dash, '-']
Separators == <<"ENDASH", "EMDASH", "-">>

\* the loop over the separators: the first one the line contains cuts the
\* name; when none does, current_section keeps its value
RECURSIVE section_name(_, _, _)
section_name(ln, seps, current) ==
    IF seps = <<>> THEN current
    ELSE IF str_contains(ln, <<Head(seps)>>)
    THEN str_strip(str_split(ln, <<Head(seps)>>)[1])
    ELSE section_name(ln, Tail(seps), current)

\* faulty variant: the content of the previous section is carried on
carried_content(content, ln) == Append(content, ln)

\* current_content = [line]
fresh_content(content, ln) == <<ln>>

\* {"name": current_section, "content": "\n".join(current_content)}
section_entry(name, content) ==
    [name |-> name, content |-> str_join(<<"\n">>, content)]

\* lines the segmenter is run on
LnSectionC ==
    <<"#"," ","S","e","c","t","i","o","n"," ","C"," ","-"," ","x"," ","ENDASH"," ","y">>

LnSectionD == <<"#"," ","S","e","c","t","i","o","n"," ","D","\t","EMDASH","z">>

LnSectionBare == <<"#"," ","S","e","c","t","i","o","n"," ","E">>

\* longest document given to the segmenter
MaxSplitLines == 3

SplitVocabulary ==
    {LnSectionA, LnSectionB, LnSectionC, LnSectionD, LnSectionBare, LnDash, LnBlank}

SplitDocs == {doc_text(ls) : ls \in SeqsUpTo(SplitVocabulary, MaxSplitLines)}

\* the state when split_nace_by_sections starts on a document
InitSplit ==
    /\ text = <<>>
    /\ lines = <<>>
    /\ i = 0
    /\ activities = <<>>
    /\ processed_codes = {}
    /\ current_section = EmptyAncestor
    /\ current_division = EmptyAncestor
    /\ current_group = EmptyAncestor
    /\ activity = Unbound
    /\ j = 0
    /\ mode = "None"
    /\ current_activity = None
    /\ pc = "idle"
    /\ result = <<>>
    /\ emitted = {}
    /\ calls = 0
    /\ first_text = <<>>
    /\ first_result = Pending
    /\ interleaved = FALSE
    /\ ValidateIdle
    /\ split_text \in SplitDocs
    /\ split_lines = str_split(split_text, <<"\n">>)
    /\ taken = 0
    /\ sections = <<>>
    /\ split_current_section = None
    /\ current_content = <<>>
    /\ spc = "loop"
    /\ WriteIdle
    /\ PolicyIdle

\* the loop is at a line
Splitting == spc = "loop" /\ taken < Len(split_lines)

\* faulty variant: the line is taken as it stands
unstripped_split_line == split_lines[taken + 1]

\* line = line.strip()
split_line == str_strip(split_lines[taken + 1])

\* a section heading: the section collected so far is saved, a new one begins
SplitHeading ==
    /\ Splitting
    /\ split_section_pattern(split_line)
    /\ sections' =
          IF truthy(split_current_section)
          THEN Append(sections, section_entry(split_current_section, current_content))
          ELSE sections
    /\ split_current_section' = section_name(split_line, Separators, split_current_section)
    /\ current_content' = fresh_content(current_content, split_line)
    /\ taken' = taken + 1
    /\ UNCHANGED <<split_text, split_lines, spc, parse_vars, history_vars, validate_vars,
                   write_vars, policy_vars>>

\* elif current_section: current_content.append(line)
SplitAppend ==
    /\ Splitting
    /\ ~split_section_pattern(split_line)
    /\ truthy(split_current_section)
    /\ current_content' = Append(current_content, split_line)
    /\ taken' = taken + 1
    /\ UNCHANGED <<split_text, split_lines, sections, split_current_section, spc,
                   parse_vars, history_vars, validate_vars,
                   write_vars, policy_vars>>

\* a line before the first section heading
SplitDiscard ==
    /\ Splitting
    /\ ~split_section_pattern(split_line)
    /\ ~truthy(split_current_section)
    /\ taken' = taken + 1
    /\ UNCHANGED <<split_text, split_lines, sections, split_current_section,
                   current_content, spc, parse_vars, history_vars, validate_vars,
                   write_vars, policy_vars>>

\* the end of the loop: the last section is saved and the list returned
SplitReturn ==
    /\ spc = "loop"
    /\ taken >= Len(split_lines)
    /\ sections' =
          IF truthy(split_current_section) /\ current_content /= <<>>
          THEN Append(sections, section_entry(split_current_section, current_content))
          ELSE sections
    /\ spc' = "returned"
    /\ UNCHANGED <<split_text, split_lines, taken, split_current_section,
                   current_content, parse_vars, history_vars, validate_vars,
                   write_vars, policy_vars>>

NextSplit ==
    \/ SplitHeading
    \/ SplitAppend
    \/ SplitDiscard
    \/ SplitReturn

SpecSplit == InitSplit /\ [][NextSplit]_vars

\* ------------------------------------------------------------------------
\* write_section_files
\* ------------------------------------------------------------------------

LowerSeq ==
    <<"a", "b", "c", "d", "e", "f", "g", "h", "i", "j", "k", "l", "m",
      "n", "o", "p", "q", "r", "s", "t", "u", "v", "w", "x", "y", "z">>

\* s.lower()
str_lower(s) ==
    [k \in 1..Len(s) |->
        IF s[k] \in Upper
        THEN LowerSeq[CHOOSE m \in 1..Len(UpperSeq) : UpperSeq[m] = s[k]]
        ELSE s[k]]

\* s.replace(old, new) for a non-empty old
RECURSIVE str_replace(_, _, _)
str_replace(s, old, new) ==
    LET k == str_find(s, old)
    IN  IF k = 0 THEN s
        ELSE SubSeq(s, 1, k - 1) \o new
                \o str_replace(SubSeq(s, k + Len(old), Len(s)), old, new)

SectionWord == <<"S","e","c","t","i","o","n"," ">>

MdSuffix == <<".","m","d">>

\* section["name"].lower().replace("Section ", "") + ".md"
filename_of(name) ==
    str_replace(str_lower(name), SectionWord, <<>>) \o MdSuffix

\* filepath.write_text(content): the file is created or overwritten
write_text(dir, filename, content) ==
    [f \in DOMAIN dir \cup {filename} |->
        IF f = filename THEN content ELSE dir[f]]

\* names and contents of the sections written
NameSectionA == <<"S","e","c","t","i","o","n"," ","A">>
NameHashSectionB == <<"#"," ","S","e","c","t","i","o","n"," ","B">>
NamePlain == <<"n","o","t","e","s">>

SectionNames == {NameSectionA, NameHashSectionB, NamePlain}

SectionContents == {<<>>, <<"x">>}

MaxSections == 2

SectionLists ==
    SeqsUpTo([name : SectionNames, content : SectionContents], MaxSections)

InitWrite ==
    /\ text = <<>>
    /\ lines = <<>>
    /\ i = 0
    /\ activities = <<>>
    /\ processed_codes = {}
    /\ current_section = EmptyAncestor
    /\ current_division = EmptyAncestor
    /\ current_group = EmptyAncestor
    /\ activity = Unbound
    /\ j = 0
    /\ mode = "None"
    /\ current_activity = None
    /\ pc = "idle"
    /\ result = <<>>
    /\ emitted = {}
    /\ calls = 0
    /\ first_text = <<>>
    /\ first_result = Pending
    /\ interleaved = FALSE
    /\ ValidateIdle
    /\ SplitIdle
    /\ given_sections \in SectionLists
    /\ written = 0
    /\ files = NoFiles
    /\ wpc = "loop"
    /\ PolicyIdle

\* one pass of 'for section in sections': the file of the section is written
WriteSection ==
    /\ wpc = "loop"
    /\ written < Len(given_sections)
    /\ LET section == given_sections[written + 1]
       IN  files' = write_text(files, filename_of(section.name), section.content)
    /\ written' = written + 1
    /\ UNCHANGED <<given_sections, wpc, parse_vars, history_vars,
                   validate_vars, split_vars, policy_vars>>

\* the loop is over
WriteReturn ==
    /\ wpc = "loop"
    /\ written = Len(given_sections)
    /\ wpc' = "returned"
    /\ UNCHANGED <<given_sections, written, files, parse_vars, history_vars,
                   validate_vars, split_vars, policy_vars>>

NextWrite == WriteSection \/ WriteReturn

SpecWrite == InitWrite /\ [][NextWrite]_vars

\* ------------------------------------------------------------------------
\* PublicService.create_policy and generate_policy
\* ------------------------------------------------------------------------

\* Document(..., download_url=None, filename=f"doc-{version}.pdf",
\* status="pending"): the row create_policy commits
NewPolicy ==
    [status |-> "pending", download_url |-> "None", content |-> "None",
     filename |-> "doc.pdf"]

\* a pending row whose filename is empty
PolicyWithoutFilename == [NewPolicy EXCEPT !.filename = "None"]

\* the four calls whose return the completion waits for, in their order
PolicySteps ==
    <<"generate_policy_template", "generate_pdf", "send_email", "upload_pdf">>

\* an exception leaves the try block of generate_policy: the finally clause
\* runs next
Raise ==
    /\ ppc' = "finally"
    /\ raising' = TRUE

\* an exception leaves create_policy before generate_policy is called
RaiseOutside ==
    /\ ppc' = "raised"
    /\ raising' = TRUE

\* company = Company(**data.model_dump()); session.add; commit
CommitCompany ==
    /\ ppc = "create_policy"
    /\ \/ /\ company_row' \in {"no_email", "with_email"}
          /\ ppc' = "add_policy"
          /\ UNCHANGED raising
       \/ /\ RaiseOutside
          /\ UNCHANGED company_row
    /\ UNCHANGED <<entered_by, stored, policy_session, document, company,
                   steps, parse_vars, history_vars, validate_vars, split_vars,
                   write_vars>>

\* policy = Document(..., status="pending"); session.add; commit
CommitPolicy ==
    /\ ppc = "add_policy"
    /\ \/ /\ stored' = NewPolicy
          /\ ppc' = "generate_policy"
          /\ UNCHANGED raising
       \/ /\ RaiseOutside
          /\ UNCHANGED stored
    /\ UNCHANGED <<entered_by, company_row, policy_session, document, company,
                   steps, parse_vars, history_vars, validate_vars, split_vars,
                   write_vars>>

\* session = await create_session(), before the try block
CreateSession ==
    /\ ppc = "generate_policy"
    /\ \/ /\ policy_session' = "open"
          /\ ppc' = "get_document"
          /\ UNCHANGED raising
       \/ /\ RaiseOutside
          /\ UNCHANGED policy_session
    /\ UNCHANGED <<entered_by, company_row, stored, document, company, steps,
                   parse_vars, history_vars, validate_vars, split_vars,
                   write_vars>>

\* document = await session.get(Document, document_id); if not document: raise
GetDocument ==
    /\ ppc = "get_document"
    /\ \/ /\ stored.status /= "absent"
          /\ document' = stored
          /\ ppc' = "get_company"
          /\ UNCHANGED raising
       \/ /\ Raise
          /\ UNCHANGED document
    /\ UNCHANGED <<entered_by, company_row, stored, policy_session, company,
                   steps, parse_vars, history_vars, validate_vars, split_vars,
                   write_vars>>

\* company = await session.get(Company, document.company_id); if not company: raise
GetCompany ==
    /\ ppc = "get_company"
    /\ \/ /\ company_row /= "absent"
          /\ company' = company_row
          /\ ppc' = "check_contact_email"
          /\ UNCHANGED raising
       \/ /\ Raise
          /\ UNCHANGED company
    /\ UNCHANGED <<entered_by, company_row, stored, policy_session, document,
                   steps, parse_vars, history_vars, validate_vars, split_vars,
                   write_vars>>

\* if not company.contact_email: raise
CheckContactEmail ==
    /\ ppc = "check_contact_email"
    /\ IF company = "with_email"
       THEN ppc' = "generate_policy_template" /\ UNCHANGED raising
       ELSE Raise
    /\ UNCHANGED <<entered_by, company_row, stored, policy_session, document,
                   company, steps, parse_vars, history_vars, validate_vars,
                   split_vars, write_vars>>

\* a call of generate_policy that returns, and then goes on at next, or raises
Step(here, next) ==
    /\ ppc = here
    /\ \/ /\ steps' = Append(steps, here)
          /\ ppc' = next
          /\ UNCHANGED raising
       \/ /\ Raise
          /\ UNCHANGED steps

\* policy_template = await generate_policy_template("policy.html")
GenerateTemplate ==
    /\ Step("generate_policy_template", "render")
    /\ UNCHANGED <<entered_by, company_row, stored, policy_session, document,
                   company, parse_vars, history_vars, validate_vars,
                   split_vars, write_vars>>

\* template = env.from_string(policy_template); content = template.render(context)
Render ==
    /\ Step("render", "generate_pdf")
    /\ UNCHANGED <<entered_by, company_row, stored, policy_session, document,
                   company, parse_vars, history_vars, validate_vars,
                   split_vars, write_vars>>

\* doc = generate_pdf(content)
GeneratePdf ==
    /\ Step("generate_pdf", "check_filename")
    /\ UNCHANGED <<entered_by, company_row, stored, policy_session, document,
                   company, parse_vars, history_vars, validate_vars,
                   split_vars, write_vars>>

\* filename = document.filename; if not filename: raise
CheckFilename ==
    /\ ppc = "check_filename"
    /\ IF document.filename /= "None"
       THEN ppc' = "send_email" /\ UNCHANGED raising
       ELSE Raise
    /\ UNCHANGED <<entered_by, company_row, stored, policy_session, document,
                   company, steps, parse_vars, history_vars, validate_vars,
                   split_vars, write_vars>>

\* await send_email("email/policy.html", ...)
SendEmail ==
    /\ Step("send_email", "upload_pdf")
    /\ UNCHANGED <<entered_by, company_row, stored, policy_session, document,
                   company, parse_vars, history_vars, validate_vars,
                   split_vars, write_vars>>

\* document.download_url = ...; document.content = content;
\* document.status = "completed"
completed(doc) ==
    [doc EXCEPT !.download_url = "url", !.content = "html",
                !.status = "completed"]

\* document.download_url = upload_pdf(filename, doc) and the two assignments
\* after it
UploadPdf ==
    /\ Step("upload_pdf", "commit")
    /\ document' = IF ppc' = "commit" THEN completed(document) ELSE document
    /\ UNCHANGED <<entered_by, company_row, stored, policy_session, company,
                   parse_vars, history_vars, validate_vars, split_vars,
                   write_vars>>

\* session.add(document); await session.commit(); return document
CommitCompleted ==
    /\ ppc = "commit"
    /\ \/ /\ stored' = document
          /\ ppc' = "finally"
          /\ UNCHANGED raising
       \/ /\ Raise
          /\ UNCHANGED stored
    /\ UNCHANGED <<entered_by, company_row, policy_session, document, company,
                   steps, parse_vars, history_vars, validate_vars, split_vars,
                   write_vars>>

\* faulty variant: the session is closed on the returning path only
closed_on_return(is_raising) == IF is_raising THEN "open" ELSE "closed"

\* finally: await session.close()
closed(is_raising) == "closed"

\* the finally clause, then the return or the exception
Finally ==
    /\ ppc = "finally"
    /\ policy_session' = closed(raising)
    /\ ppc' = IF raising THEN "raised" ELSE "returned"
    /\ UNCHANGED <<entered_by, company_row, stored, document, company, steps,
                   raising, parse_vars, history_vars, validate_vars,
                   split_vars, write_vars>>

\* the committed rows generate_policy may find when it is called alone
StoredAtCall == {NoDocument, NewPolicy, PolicyWithoutFilename}

CompanyAtCall == {"absent", "no_email", "with_email"}

InitPolicy ==
    /\ text = <<>>
    /\ lines = <<>>
    /\ i = 0
    /\ activities = <<>>
    /\ processed_codes = {}
    /\ current_section = EmptyAncestor
    /\ current_division = EmptyAncestor
    /\ current_group = EmptyAncestor
    /\ activity = Unbound
    /\ j = 0
    /\ mode = "None"
    /\ current_activity = None
    /\ pc = "idle"
    /\ result = <<>>
    /\ emitted = {}
    /\ calls = 0
    /\ first_text = <<>>
    /\ first_result = Pending
    /\ interleaved = FALSE
    /\ ValidateIdle
    /\ SplitIdle
    /\ WriteIdle
    /\ \/ /\ entered_by = "create_policy"
          /\ ppc = "create_policy"
          /\ company_row = "absent"
          /\ stored = NoDocument
       \/ /\ entered_by = "generate_policy"
          /\ ppc = "generate_policy"
          /\ company_row \in CompanyAtCall
          /\ stored \in StoredAtCall
    /\ policy_session = "none"
    /\ document = NoDocument
    /\ company = "absent"
    /\ steps = <<>>
    /\ raising = FALSE

NextPolicy ==
    \/ CommitCompany
    \/ CommitPolicy
    \/ CreateSession
    \/ GetDocument
    \/ GetCompany
    \/ CheckContactEmail
    \/ GenerateTemplate
    \/ Render
    \/ GeneratePdf
    \/ CheckFilename
    \/ SendEmail
    \/ UploadPdf
    \/ CommitCompleted
    \/ Finally

SpecPolicy == InitPolicy /\ [][NextPolicy]_vars

\* every call that is awaited returns or raises, and the coroutine goes on
SpecPolicyFair == SpecPolicy /\ WF_vars(NextPolicy)

\* ------------------------------------------------------------------------
\* Properties
\* ------------------------------------------------------------------------

\* the stripped line at 0-based index idx of the document
stripped(idx) == str_strip(lines[idx + 1])

ActivityKeys == {"included_activities", "excluded_activities"}

\* C1: parse_nace_activities returns normally on every input: whatever the
\* order of mode markers, '-' bullets and '*' bullets, no exception is raised.
C1_NeverRaises == pc /= "raised"

\* C2: in the activity loop, a '*' line met while the list of the current
\* mode is still empty is dropped: nothing is attached anywhere and the loop
\* goes on to the next line.
C2_OrphanSubactivityDropped ==
    [][(/\ InWindow
        /\ str_startswith(next_line, <<"*">>)
        /\ next_mode(mode, next_line) /= "None"
        /\ activity[mode_list(next_mode(mode, next_line))] = <<>>)
       => (/\ pc' = "activities"
           /\ activity' = activity
           /\ j' = j + 1)]_vars

\* C3: no two records of the list under construction, or of the returned
\* list, share a class_code.
C3_UniqueClassCodes ==
    /\ \A a, b \in 1..Len(activities) :
          a /= b => activities[a].class_code /= activities[b].class_code
    /\ \A a, b \in 1..Len(result) :
          a /= b => result[a].class_code /= result[b].class_code

\* C3 witness: a document in which a class heading is repeated has been
\* parsed to the end and its class is in the output.
C3_Witness ==
    /\ pc = "done"
    /\ \E p, q \in 0..(Len(lines) - 1) :
          /\ p < q
          /\ class_pattern(stripped(p)).matched
          /\ class_pattern(stripped(q)).matched
          /\ class_pattern(stripped(p)).code = class_pattern(stripped(q)).code
          /\ [class_code |-> class_pattern(stripped(p)).code, at |-> p] \in emitted

\* C4: in every record, division_code is the first 2 characters of
\* class_code, group_code is the first 4 characters of class_code, and
\* group_code starts with division_code.
C4_HierarchyConsistent ==
    \A k \in 1..Len(activities) :
        LET r == activities[k]
        IN  /\ r.division_code = SubSeq(r.class_code, 1, 2)
            /\ r.group_code = SubSeq(r.class_code, 1, 4)
            /\ Len(r.group_code) >= 2
            /\ SubSeq(r.group_code, 1, 2) = r.division_code

\* C4 witness: a record was emitted for a class heading that directly
\* follows a division or group heading of another division.
C4_Witness ==
    /\ pc = "done"
    /\ \E e \in emitted :
          /\ e.at >= 1
          /\ \/ /\ division_pattern(stripped(e.at - 1)).matched
                /\ division_pattern(stripped(e.at - 1)).code /= SubSeq(e.class_code, 1, 2)
             \/ /\ group_pattern(stripped(e.at - 1)).matched
                /\ group_pattern(stripped(e.at - 1)).code /= SubSeq(e.class_code, 1, 4)
          /\ \E k \in 1..Len(result) : result[k].class_code = e.class_code

\* C5: every record has a non-empty section_code, and a section heading with
\* that code lies before the class heading the record was built from.
C5_NoOrphanClasses ==
    \A k \in 1..Len(activities) :
        LET r == activities[k]
        IN  /\ r.section_code /= <<>>
            /\ \E e \in emitted :
                  /\ e.class_code = r.class_code
                  /\ \E p \in 0..(e.at - 1) :
                        /\ section_pattern(stripped(p)).matched
                        /\ section_pattern(stripped(p)).code = r.section_code

\* C5 witness: the document starts with a class heading, before any section
\* heading, and the parse has returned a record for a later class heading.
C5_Witness ==
    /\ pc = "done"
    /\ result /= <<>>
    /\ class_pattern(stripped(0)).matched

\* C6: the returned list is strictly increasing by class_code in
\* lexicographic order.
C6_SortedByClassCode ==
    pc = "done" =>
        \A k \in 1..(Len(result) - 1) :
            str_lt(result[k].class_code, result[k + 1].class_code)

\* C6 witness: two records were emitted in descending order of class_code
\* and the parse has returned.
C6_Witness ==
    /\ pc = "done"
    /\ \E e1, e2 \in emitted :
          e1.at < e2.at /\ str_lt(e2.class_code, e1.class_code)

\* C7: a call on the text of the first call ends as the first call ended and
\* returns an equal list in equal order, whatever calls came in between.
C7_CallsIndependent ==
    (calls > 1 /\ pc \in {"done", "raised"} /\ text = first_text)
        => (pc = first_result.outcome /\ result = first_result.value)

\* C7 witness: the third call, on the text of the first call and after a
\* call on another text, has returned a non-empty list.
C7_Witness ==
    /\ calls = 3
    /\ pc = "done"
    /\ text = first_text
    /\ interleaved
    /\ result /= <<>>

\* the stripped lines, among the first limit lines after the heading at
\* 0-based index at, that start with the given bullet marker
bullets_after(at, marker, limit) ==
    {stripped(p) : p \in {q \in (at + 1)..(at + limit) :
        q < Len(lines) /\ str_startswith(stripped(q), marker)}}

\* C8: every activity and subactivity of a record comes from a bullet line
\* at most 50 lines after the record's class heading.
C8_WindowCapped ==
    \A e \in emitted : \A k \in 1..Len(activities) :
        activities[k].class_code = e.class_code =>
            \A key \in ActivityKeys : \A m \in 1..Len(activities[k][key]) :
                LET entry == activities[k][key][m]
                IN  /\ entry.activity \in
                          {activity_text(b) : b \in bullets_after(e.at, <<"-">>, 50)}
                    /\ \A n \in 1..Len(entry.subactivities) :
                          entry.subactivities[n] \in
                              {subactivity_text(b) : b \in bullets_after(e.at, <<"*">>, 50)}

\* C8 witness: a class heading is followed by more than 50 lines without a
\* class heading or '#' line, a '-' bullet lies more than 50 lines after it,
\* and its record was returned with an included activity.
C8_Witness ==
    /\ pc = "done"
    /\ \E e \in emitted :
          /\ Len(lines) - 1 > e.at + 50
          /\ \A q \in (e.at + 1)..(Len(lines) - 1) : ~window_break(stripped(q))
          /\ \E q \in (e.at + 51)..(Len(lines) - 1) : str_startswith(stripped(q), <<"-">>)
          /\ \E k \in 1..Len(result) :
                /\ result[k].class_code = e.class_code
                /\ result[k].included_activities /= <<>>

\* C9: the twelve-line document yields exactly two records, 01.11 then
\* 01.12, both in section A, division 01, group 01.1; 01.11 includes
\* 'Growing of wheat' with the one subactivity 'Winter wheat' and excludes
\* 'Growing of sugar cane'; 01.12 has empty activity lists.
C9_EndToEnd ==
    (pc = "done" /\ text = doc_text(ExampleLines)) =>
        /\ Len(result) = 2
        /\ result[1].class_code = <<"0","1",".","1","1">>
        /\ result[2].class_code = <<"0","1",".","1","2">>
        /\ \A k \in 1..2 :
              /\ result[k].section_code = <<"A">>
              /\ result[k].division_code = <<"0","1">>
              /\ result[k].group_code = <<"0","1",".","1">>
        /\ result[1].included_activities =
              <<[activity |-> <<"G","r","o","w","i","n","g"," ","o","f"," ","w","h","e","a","t">>,
                 subactivities |-> <<<<"W","i","n","t","e","r"," ","w","h","e","a","t">>>>]>>
        /\ result[1].excluded_activities =
              <<[activity |-> <<"G","r","o","w","i","n","g"," ","o","f"," ","s","u","g","a","r"," ","c","a","n","e">>,
                 subactivities |-> <<>>]>>
        /\ result[2].included_activities = <<>>
        /\ result[2].excluded_activities = <<>>

\* C9 witness: the parse of the twelve-line document has returned.
C9_Witness == pc = "done" /\ text = doc_text(ExampleLines) /\ Len(result) = 2

\* C10: validate_nace_activities returns true exactly when the list it is
\* given holds 615 records, and it leaves the list as it was.
C10_ValidateCountsRecords ==
    [][(vpc = "called" /\ vpc' = "returned")
          => (given' = given /\ valid' = (Len(given) = 615))]_vars

\* C10 witness: a list of 615 records with repeated class codes and a
\* single section was accepted.
C10_Witness ==
    /\ vpc = "returned"
    /\ valid
    /\ Len(given) = 615
    /\ Cardinality(unique_codes(given, "class_code")) < 615
    /\ Cardinality(unique_codes(given, "section_code")) = 1

\* the 0-based indices of the section-heading lines of a document
heading_indices(ls) ==
    {m \in 0..(Len(ls) - 1) : split_section_pattern(str_strip(ls[m + 1]))}

\* the index of the n-th section heading
nth_heading(ls, n) ==
    CHOOSE h \in heading_indices(ls) :
        Cardinality({m \in heading_indices(ls) : m < h}) = n - 1

\* where the section of the heading at h ends: the next heading, or the end
section_end(ls, h) ==
    SetMin({m \in heading_indices(ls) : m > h} \cup {Len(ls)})

\* the stripped lines at indices a .. b-1
stripped_lines(ls, a, b) == [m \in 1..(b - a) |-> str_strip(ls[a + m])]

\* C11: split_nace_by_sections returns one entry per section-heading line,
\* in document order; the content of the n-th entry is the lines (stripped,
\* as the loop holds them) from the n-th heading up to, not including, the
\* next heading, joined by newlines in their order; so lines before the
\* first heading are in no entry and a document without a section heading
\* yields the empty list.
C11_OneEntryPerHeading ==
    spc = "returned" =>
        /\ Len(sections) = Cardinality(heading_indices(split_lines))
        /\ \A n \in 1..Len(sections) :
              LET h == nth_heading(split_lines, n)
              IN  sections[n].content =
                     str_join(<<"\n">>,
                              stripped_lines(split_lines, h, section_end(split_lines, h)))

\* a returned list of two entries whose first section holds a line that is
\* not a heading
C11_Witness ==
    /\ spc = "returned"
    /\ Len(sections) = 2
    /\ heading_indices(split_lines) = {0, 2}
    /\ split_lines[2] /= <<>>

\* the text of a section heading before the dash that follows its letter
before_dash(heading) ==
    LET p == Len(SectionPrefix) + 1
        after == str_lstrip(SubSeq(heading, p + 1, Len(heading)), {" ", "\t"})
    IN  str_strip(SubSeq(heading, 1, Len(heading) - Len(after)))

\* the same without the leading "# ": 'Section X'
section_letter_name(heading) == SubSeq(before_dash(heading), 3, Len(before_dash(heading)))

\* C12: each returned entry is named by the text of its heading before the
\* dash that follows the section letter ('Section X', read here with or
\* without the leading '# ' of the heading line), also when the title holds
\* a dash of another kind.
C12_NameBeforeDash ==
    spc = "returned" =>
        \A n \in 1..Len(sections) :
            LET heading == str_strip(split_lines[nth_heading(split_lines, n) + 1])
            IN  sections[n].name \in {before_dash(heading), section_letter_name(heading)}

\* the document cut after its n-th line
head_of(ls, n) == IF n < Len(ls) THEN SubSeq(ls, 1, n) ELSE ls

\* every iteration of the main loop ends with i one further, and while the
\* activity loop of a class heading runs i stays on that heading
MainScanAdvances ==
    /\ pc' = "scan" => i' = i + 1
    /\ pc' = "activities" => i' = i /\ (pc = "activities" => j' = j + 1)
    /\ pc' \in {"done", "raised"} => i' = i

\* the activity loop looks at lines after the heading, at most
\* ActivityWindow - 1 of them
ActivityLookaheadBounded ==
    pc = "activities" => i < j /\ j <= i + ActivityWindow /\ j <= Len(lines)

\* the description of a heading at line i is the same when the document is
\* cut after the last line the scan can reach
DescriptionLookaheadBounded ==
    \A marker \in {SectionIncludes, DivisionIncludes, GroupIncludes} :
        (Scanning /\ branch(line) \in {"section", "division", "group"}) =>
            scan_description(lines, i, marker) =
                scan_description(
                    head_of(lines, i + DescriptionWindow + DescriptionSpan - 1),
                    i, marker)

\* C13: parse terminates on every input: each iteration of the main loop
\* advances i by exactly one whatever lookahead it performed, the activity
\* loop and the description scan of a heading visit a bounded number of
\* lines, and every call ends.
C13_Terminates ==
    /\ [][MainScanAdvances]_vars
    /\ [](ActivityLookaheadBounded /\ DescriptionLookaheadBounded)
    /\ <>Terminated

\* a call that has returned after an activity loop that ran to the end of
\* its window
C13_Witness ==
    /\ pc = "done"
    /\ Len(result) = 1
    /\ j = 1 + ActivityWindow
    /\ Len(lines) > j

\* the indices of the lines after the heading at idx, up to the last line
\* the description scan reaches, that hold the marker
marker_lines(ls, idx, marker) ==
    {m \in (idx + 1)..SetMin({idx + DescriptionWindow + DescriptionSpan - 2, Len(ls) - 1}) :
        str_contains(ls[m + 1], marker)}

\* the text after the marker on its own line, trimmed
rest_of_line(ln, marker) ==
    str_strip(SubSeq(ln, str_find(ln, marker) + Len(marker), Len(ln)))

\* the description as stated: what follows the marker on the first line that
\* holds it, and the empty string when no line does
own_line_description(ls, idx, marker) ==
    IF marker_lines(ls, idx, marker) = {} THEN <<>>
    ELSE rest_of_line(ls[SetMin(marker_lines(ls, idx, marker)) + 1], marker)

\* C14: the description stored for a section, a division or an accepted
\* group heading is the text that follows the marker phrase up to the end of
\* the marker's own line, trimmed, and the empty string when the lookahead
\* holds no marker.
C14_DescriptionIsOwnLine ==
    [][/\ MatchSection =>
             current_section'.description =
                 own_line_description(lines, i, SectionIncludes)
       /\ MatchDivision =>
             current_division'.description =
                 own_line_description(lines, i, DivisionIncludes)
       /\ MatchGroup /\ group_accepted(group_pattern(line).code, current_division) =>
             current_group'.description =
                 own_line_description(lines, i, GroupIncludes)]_vars

\* no line among the first DescriptionWindow lines after the heading at idx
\* holds the marker
no_marker_within_window(ls, idx, marker) ==
    \A m \in (idx + 1)..SetMin({idx + DescriptionWindow, Len(ls) - 1}) :
        ~str_contains(ls[m + 1], marker)

\* C15: the description lookahead is capped at 10 lines: when the marker
\* phrase of a section, division or group heading occurs on none of the 10
\* lines after the heading, the heading's description stays empty.
C15_DescriptionWindowCapped ==
    [][/\ MatchSection /\ no_marker_within_window(lines, i, SectionIncludes) =>
             current_section'.description = <<>>
       /\ MatchDivision /\ no_marker_within_window(lines, i, DivisionIncludes) =>
             current_division'.description = <<>>
       /\ MatchGroup /\ no_marker_within_window(lines, i, GroupIncludes) =>
             current_group'.description \in {<<>>, current_group.description}]_vars

\* a mode marker stands on a line after the heading at index at, up to line q
mode_active(at, q) ==
    \E p \in (at + 1)..q :
        str_contains(stripped(p), ClassIncludes) \/ str_contains(stripped(p), ClassExcludes)

\* no line after the heading at index at, up to line q, ends the activity loop
no_stop_line(at, q) == \A p \in (at + 1)..q : ~window_break(stripped(p))

\* the activity texts of a record, of both lists
activity_texts(rec) ==
    UNION {{rec[key][m].activity : m \in 1..Len(rec[key])} : key \in ActivityKeys}

\* C16: the activity sub-parse covers the 50 lines after the class heading:
\* a '-' bullet on the k-th line after the heading, k from 1 to 50, with a
\* mode active and no stop line up to it, is an activity of the class's
\* record.
C16_WindowCoversFifty ==
    \A e \in emitted : \A n \in 1..Len(activities) :
        activities[n].class_code = e.class_code =>
            \A q \in (e.at + 1)..(e.at + 50) :
                (/\ q < Len(lines)
                 /\ str_startswith(stripped(q), <<"-">>)
                 /\ mode_active(e.at, q)
                 /\ no_stop_line(e.at, q))
                    => activity_text(stripped(q)) \in activity_texts(activities[n])

\* a class heading, with or without the '######' prefix, or a '#' line
is_stop_line(ln) == class_pattern(ln).matched \/ str_startswith(ln, <<"#">>)

\* the index of the first stop line after the heading at index at, or the
\* number of lines when there is none
first_stop(at) ==
    SetMin({q \in (at + 1)..(Len(lines) - 1) : is_stop_line(stripped(q))}
           \cup {Len(lines)})

\* the indices of the lines between the heading at index at and its stop
\* line that start with the given bullet marker
bullets_before_stop(at, marker) ==
    {q \in (at + 1)..(first_stop(at) - 1) : str_startswith(stripped(q), marker)}

\* at a stop line inside the window the activity loop ends and the record is
\* appended as it stands; a blank line is passed over and the loop goes on
StopLineEndsLoop ==
    (pc = "activities" /\ window_open(j, i, Len(lines))) =>
        /\ is_stop_line(next_line) =>
              /\ pc' = "scan"
              /\ activities' = Append(activities, activity)
        /\ next_line = <<>> =>
              /\ pc' = "activities"
              /\ j' = j + 1
              /\ activity' = activity

\* the activities and subactivities of every appended record come from the
\* bullets between its heading and its stop line, and are no more than these
NothingPastStop ==
    \A e \in emitted : \A n \in 1..Len(activities) :
        activities[n].class_code = e.class_code =>
            LET rec == activities[n]
                entries == rec.included_activities \o rec.excluded_activities
            IN  /\ Len(entries) <= Cardinality(bullets_before_stop(e.at, <<"-">>))
                /\ \A m \in 1..Len(entries) :
                      /\ entries[m].activity \in
                            {activity_text(stripped(q)) :
                                q \in bullets_before_stop(e.at, <<"-">>)}
                      /\ Len(entries[m].subactivities) <=
                            Cardinality(bullets_before_stop(e.at, <<"*">>))

\* C17: the activity sub-parse of a class stops at the first following line
\* that is a class heading (new or already processed, with or without
\* '######') or starts with '#': the record is appended there and no line at
\* or after the stop line adds to its lists, while a blank line before it is
\* skipped without ending the window.
C17_StopsAtHeading == [][StopLineEndsLoop]_vars /\ []NothingPastStop

\* a returned record whose block held a blank line and a bullet before an
\* unprefixed class heading and a bullet after it
C17_Witness ==
    /\ pc = "done"
    /\ lines = <<LnSectionA, LnClass0111, LnIncludes, LnBlank, LnDash, LnClass0111>>
    /\ Len(result) = 1
    /\ Len(result[1].included_activities) = 1

\* C18: inside the activity window a '*' line that follows at least one '-'
\* line of the current mode is appended to the subactivities of the activity
\* last appended in that mode, whatever the text of that activity, and the
\* list of the other mode is left as it is.
C18_SubactivityAttached ==
    [][(/\ InWindow
        /\ str_startswith(next_line, <<"*">>)
        /\ next_mode(mode, next_line) /= "None"
        /\ activity[mode_list(next_mode(mode, next_line))] /= <<>>)
          => LET key == mode_list(next_mode(mode, next_line))
             IN  /\ activity'[key] =
                       append_subactivity(activity[key], subactivity_text(next_line))
                 /\ \A other \in ActivityKeys \ {key} : activity'[other] = activity[other]]_vars

\* the indices of the mode marker lines after the heading at index at and
\* before line q
marker_lines_before(at, q) ==
    {p \in (at + 1)..(q - 1) :
        str_contains(stripped(p), ClassIncludes) \/ str_contains(stripped(p), ClassExcludes)}

SetMax(S) == CHOOSE x \in S : \A y \in S : y <= x

\* the mode named by the most recent marker line before line q of the class
\* whose heading is at index at
marked_mode(at, q) ==
    IF marker_lines_before(at, q) = {} THEN "None"
    ELSE IF str_contains(stripped(SetMax(marker_lines_before(at, q))), ClassIncludes)
    THEN "includes"
    ELSE "excludes"

\* C19: inside the activity window a '-' line becomes a new activity without
\* subactivities of included_activities when the most recent mode marker
\* before it in this window is 'This class includes:', of
\* excluded_activities when it is 'This class excludes:', and of neither
\* list when no marker precedes it in this window, whatever the mode of the
\* previous class was.
C19_BulletFollowsMode ==
    [][(InWindow /\ str_startswith(next_line, <<"-">>)) =>
          LET entry == [activity |-> activity_text(next_line), subactivities |-> <<>>]
              included == activity.included_activities
              excluded == activity.excluded_activities
          IN  /\ marked_mode(i, j) = "includes" =>
                    /\ activity'.included_activities = Append(included, entry)
                    /\ activity'.excluded_activities = excluded
              /\ marked_mode(i, j) = "excludes" =>
                    /\ activity'.included_activities = included
                    /\ activity'.excluded_activities = Append(excluded, entry)
              /\ marked_mode(i, j) = "None" => activity' = activity]_vars

\* two returned records: the first took a bullet in includes mode, the
\* second, whose bullet follows no marker of its own, took none
C19_Witness ==
    /\ pc = "done"
    /\ lines = <<LnSectionA, LnClass0111, LnIncludes, LnDash, LnClass0112, LnDash>>
    /\ Len(result) = 2
    /\ Len(result[1].included_activities) = 1
    /\ result[2].included_activities = <<>>
    /\ result[2].excluded_activities = <<>>

AtNewClass ==
    /\ Scanning
    /\ branch(line) = "class"
    /\ class_pattern(line).code \notin processed_codes

\* an ancestor of the given code without name and description
bare_ancestor(code) == [code |-> code, name |-> <<>>, description |-> <<>>]

\* C21: at a new class heading, when the 2-digit prefix of the class code
\* differs from the code of the current division, the current division
\* becomes {code: prefix, name: '', description: ''} and the record built
\* has empty division_name and division_description, whatever division
\* headings came before; when they are equal the current division stays and
\* the record carries its name and description.  The same holds for the
\* group and the 4-character prefix.
C21_PrefixRecovery ==
    [][AtNewClass =>
          LET class_code == class_pattern(line).code
              div == SubSeq(class_code, 1, 2)
              grp == SubSeq(class_code, 1, 4)
          IN  /\ current_division' =
                    IF div /= current_division.code
                    THEN bare_ancestor(div) ELSE current_division
              /\ current_group' =
                    IF grp /= current_group.code
                    THEN bare_ancestor(grp) ELSE current_group
              /\ pc' = "activities" =>
                    /\ activity'.division_name = current_division'.name
                    /\ activity'.division_description = current_division'.description
                    /\ activity'.group_name = current_group'.name
                    /\ activity'.group_description = current_group'.description]_vars

\* a returned record of class 01.11 that follows the headings of division
\* 01 and then of division 02: its division name is empty
C21_Witness ==
    /\ pc = "done"
    /\ lines = DivisionRecoveryLines
    /\ Len(result) = 1
    /\ result[1].division_code = <<"0","1">>
    /\ result[1].division_name = <<>>


\* the main loop is at a class heading whose code is in the seen-set
AtRepeatedClass ==
    /\ Scanning
    /\ branch(line) = "class"
    /\ class_pattern(line).code \in processed_codes

\* the records emitted so far are all still there, unchanged and in place
RecordsKept ==
    /\ Len(activities') >= Len(activities)
    /\ SubSeq(activities', 1, Len(activities)) = activities

\* C22: a class heading that repeats an already emitted class code adds no
\* record and changes neither the current division nor the current group;
\* the main loop goes on with the next line, so no bullet after it is
\* collected, no step of the scan rewrites an emitted record and the
\* records returned are the emitted ones: the record of the first occurrence
\* keeps its ancestors, name and lists.
C22_RepeatedClassIgnored ==
    [][/\ pc' \in {"scan", "activities"} => RecordsKept
       /\ pc' = "done" =>
             {result'[k] : k \in 1..Len(result')} =
                 {activities[k] : k \in 1..Len(activities)}
       /\ AtRepeatedClass =>
             /\ activities' = activities
             /\ processed_codes' = processed_codes
             /\ current_section' = current_section
             /\ current_division' = current_division
             /\ current_group' = current_group
             /\ pc' = "scan"
             /\ i' = i + 1]_vars

\* class 01.11 repeated after the heading of division 02 and followed by a
\* bullet: one record is returned, with division 01 and no activity, and the
\* current division is still 02 with its name
C22_Witness ==
    /\ pc = "done"
    /\ lines = RepeatedClassLines
    /\ Len(result) = 1
    /\ result[1].division_code = <<"0","1">>
    /\ result[1].included_activities = <<>>
    /\ current_division.code = <<"0","2">>
    /\ current_division.name = <<"F","o">>


\* C23: a division heading sets the code and name of the current division
\* whether or not a section has been established, and a section heading sets
\* the current section and leaves the current division and group as they
\* are; so a class after a later section heading finds the division of a
\* heading seen before that section heading.
C23_DivisionIndependentOfSection ==
    [][/\ (Scanning /\ branch(line) = "division") =>
             /\ current_division'.code = division_pattern(line).code
             /\ current_division'.name = division_pattern(line).name
             /\ UNCHANGED <<current_section, current_group>>
       /\ (Scanning /\ branch(line) = "section") =>
             /\ current_section'.code = section_pattern(line).code
             /\ UNCHANGED <<current_division, current_group, activities,
                            processed_codes>>]_vars

\* a division heading before any section heading, then a section heading and
\* a class of that division: the record carries the division's name
C23_Witness ==
    /\ pc = "done"
    /\ lines = <<LnDivision01, LnSectionA, LnClass0111>>
    /\ Len(result) = 1
    /\ result[1].section_code = <<"A">>
    /\ result[1].division_name = <<"C","r","o","p">>


\* the file name the comment of write_section_files gives for 'Section X':
\* 'section_x.md'
commented_filename(name) ==
    <<"s","e","c","t","i","o","n","_">>
        \o str_lower(SubSeq(name, Len(SectionWord) + 1, Len(name))) \o MdSuffix

\* C24: every section written whose name is 'Section ' and a letter has its
\* file under the name the comment states, 'Section A' under 'section_a.md'.
C24_FileNamedAsCommented ==
    \A k \in 1..written :
        str_startswith(given_sections[k].name, SectionWord) =>
            commented_filename(given_sections[k].name) \in DOMAIN files


\* the 0-based indices of the section headings of the document
section_heading_lines ==
    {idx \in 0..(Len(lines) - 1) : branch(stripped(idx)) = "section"}

\* the codes of the class-heading lines that come after a section heading
class_codes_in_sections ==
    {class_pattern(stripped(idx)).code :
        idx \in {n \in 0..(Len(lines) - 1) :
                    /\ branch(stripped(n)) = "class"
                    /\ \E h \in section_heading_lines : h < n}}

\* C25: when the parse has returned, the class codes of its records are
\* exactly the codes of the class-heading lines that follow the first
\* section heading, also of those that lie inside the description lookahead
\* of a heading or inside the activity window of another class.
C25_Complete ==
    pc = "done" =>
        {result[k].class_code : k \in 1..Len(result)} = class_codes_in_sections

\* a class heading that ended the activity window of the class before it,
\* after a bullet of that class: both classes are returned
C25_Witness ==
    /\ pc = "done"
    /\ lines = <<LnSectionA, LnClass0111, LnIncludes, LnDash, LnClass0210>>
    /\ Len(result) = 2
    /\ result[1].included_activities /= <<>>
    /\ result[2].class_code = <<"0","2",".","1","0">>


\* a division or group heading written without a '#' prefix
plain_heading(ln) ==
    branch(ln) \in {"division", "group"} /\ ~str_startswith(ln, <<"#">>)

\* the activity loop has read such a heading since the class heading
plain_heading_passed ==
    \E idx \in (i + 1)..(j - 1) : plain_heading(stripped(idx))

\* C26: inside the 50-line window the activity loop does not end at a
\* division or group heading written without '#': it steps over the line and
\* keeps the record, the mode and the current activity; with a mode active,
\* a '-' bullet read after such a heading is appended to the list of that
\* mode of the class being collected, and a '*' bullet to the subactivities
\* of its current activity.
C26_PlainHeadingInsideWindow ==
    [][(pc = "activities" /\ window_open(j, i, Len(lines))) =>
          LET key == mode_list(mode)
              same_mode == mode /= "None" /\ next_mode(mode, next_line) = mode
          IN  /\ plain_heading(next_line) =>
                    /\ pc' = "activities"
                    /\ j' = j + 1
                    /\ UNCHANGED <<i, activity, current_activity, activities>>
                    /\ mode' = next_mode(mode, next_line)
              /\ (plain_heading_passed /\ same_mode
                    /\ str_startswith(next_line, <<"-">>)) =>
                    activity'[key] =
                        Append(activity[key],
                               [activity |-> activity_text(next_line),
                                subactivities |-> <<>>])
              /\ (plain_heading_passed /\ same_mode
                    /\ str_startswith(next_line, <<"*">>)
                    /\ truthy(current_activity) /\ activity[key] /= <<>>) =>
                    activity'[key] =
                        append_subactivity(activity[key],
                                           subactivity_text(next_line))]_vars

\* class 01.11, its marker, the heading '01 Crop', then '- wheat:' and
\* '* winter': the returned record of 01.11 holds the activity 'wheat' with
\* the subactivity 'winter'
C26_Witness ==
    /\ pc = "done"
    /\ lines = BehindDivisionLines
    /\ Len(result) = 1
    /\ result[1].included_activities =
          <<[activity |-> <<"w","h","e","a","t">>,
             subactivities |-> <<<<"w","i","n","t","e","r">>>>]>>


\* the main loop is at a class heading with an unseen code and no section
AtDroppedClass == AtNewClass /\ current_section.code = <<>>

\* C27: a class heading met before any section heading yields no record and
\* its code is not added to the seen-set, while the current division and
\* group are still reset to its prefixes; the seen-set holds the codes of
\* the records emitted and nothing else, so the same code under a later
\* section heading is emitted.
C27_DroppedClassNotSeen ==
    /\ [][AtDroppedClass =>
             LET class_code == class_pattern(line).code
             IN  /\ processed_codes' = processed_codes
                 /\ activities' = activities
                 /\ pc' = "scan"
                 /\ current_division'.code = SubSeq(class_code, 1, 2)
                 /\ current_group'.code = SubSeq(class_code, 1, 4)]_vars
    /\ [](pc \in {"scan", "activities", "done"} =>
             processed_codes =
                 {activities[k].class_code : k \in 1..Len(activities)})

\* class 01.11 before the section heading and again after it: the second
\* heading is emitted
C27_Witness ==
    /\ pc = "done"
    /\ lines = <<LnClass0111, LnSectionA, LnClass0111>>
    /\ Len(result) = 1
    /\ result[1].class_code = <<"0","1",".","1","1">>
    /\ result[1].section_code = <<"A">>


\* the description holds, from its start, what follows the marker on the
\* first line within reach of the heading at idx that holds the marker
takes_first_marker(description, idx, marker) ==
    marker_lines(lines, idx, marker) /= {} =>
        LET first == SetMin(marker_lines(lines, idx, marker))
        IN  /\ str_startswith(description, rest_of_line(lines[first + 1], marker))
            /\ rest_of_line(lines[first + 1], marker) /= <<>> => description /= <<>>

\* a heading of the given level lies between the heading at idx and the
\* first marker line of the level
heading_before_marker(idx, marker, level) ==
    /\ marker_lines(lines, idx, marker) /= {}
    /\ \E n \in (idx + 1)..(SetMin(marker_lines(lines, idx, marker)) - 1) :
          branch(stripped(n)) = level

\* C28: the description lookahead of a section, division or accepted group
\* heading is not cut off by the headings that follow it: the description
\* begins with the text after the first marker phrase of its level within
\* reach, also when a later heading of the same level lies before that
\* phrase.
C28_LookaheadCrossesHeadings ==
    [][/\ MatchSection =>
             takes_first_marker(current_section'.description, i, SectionIncludes)
       /\ MatchDivision =>
             takes_first_marker(current_division'.description, i, DivisionIncludes)
       /\ MatchGroup /\ group_accepted(group_pattern(line).code, current_division) =>
             takes_first_marker(current_group'.description, i, GroupIncludes)]_vars

\* '# Section A', '# Section B', then the marker line of B: the main loop has
\* passed the heading of A, and A has the description 'crops'
C28_Witness ==
    /\ pc = "scan"
    /\ lines = SharedSectionDescLines
    /\ i = 1
    /\ heading_before_marker(0, SectionIncludes, "section")
    /\ current_section.code = <<"A">>
    /\ current_section.description = <<"c","r","o","p","s">>


\* C29: when split_nace_by_sections has returned, the contents of its
\* entries joined by newlines are the stripped input lines from the first
\* section heading to the end of the document, joined by newlines (nothing
\* when there is no section heading), and the content of every entry starts
\* with its own heading line.
C29_RoundTrip ==
    spc = "returned" =>
        LET hs == heading_indices(split_lines)
            contents == [n \in 1..Len(sections) |-> sections[n].content]
        IN  /\ str_join(<<"\n">>, contents) =
                  IF hs = {} THEN <<>>
                  ELSE str_join(<<"\n">>,
                                stripped_lines(split_lines, SetMin(hs), Len(split_lines)))
            /\ \A n \in 1..Len(sections) :
                  str_startswith(sections[n].content,
                                 str_strip(split_lines[nth_heading(split_lines, n) + 1]))

\* a line before the first heading, a heading, and an indented line: the one
\* entry returned holds the heading and the line without its indentation
C29_Witness ==
    /\ spc = "returned"
    /\ split_lines = <<LnBlank, LnSectionA, LnDash>>
    /\ Len(sections) = 1
    /\ sections[1].content = str_join(<<"\n">>, <<LnSectionA, str_strip(LnDash)>>)
    /\ sections[1].content /= str_join(<<"\n">>, <<LnSectionA, LnDash>>)


\* those of the four calls that have returned, in the order they returned
returned_steps ==
    SelectSeq(steps, LAMBDA st : \E n \in 1..Len(PolicySteps) : PolicySteps[n] = st)

\* generate_policy has ended, by return or by exception
PolicyEnded == ppc \in {"returned", "raised"}

\* create_policy calls generate_policy with the pending row committed
PendingBeforeGeneration ==
    (entered_by = "create_policy" /\ ppc = "generate_policy") => stored = NewPolicy

\* a completed Document, stored or local, has seen the four calls return in
\* their order, with a company that has a contact email and a filename
CompletedAfterAllSteps ==
    /\ stored.status = "completed" =>
          /\ stored = completed(NewPolicy)
          /\ document = stored
    /\ document.status = "completed" =>
          /\ returned_steps = PolicySteps
          /\ company = "with_email"
          /\ document.filename /= "None"

\* the stored status changes from 'pending' only by the commit at the end
\* of generate_policy, which no exception precedes
StatusChangesAtCommit ==
    (stored.status = "pending" /\ stored'.status /= "pending") =>
        /\ ppc = "commit"
        /\ stored' = document
        /\ ~raising'

\* after an exception the stored status is what it was: never 'completed'
PendingWhenRaised == raising => stored.status \in {"absent", "pending"}

\* a session that was created is closed when generate_policy has ended
ClosedAtEnd == (PolicyEnded /\ policy_session /= "none") => policy_session = "closed"

\* C30: create_policy commits the Document with status 'pending' before it
\* calls generate_policy; the status 'completed', with download_url and
\* content, is set and committed only after generate_policy_template,
\* generate_pdf, send_email and upload_pdf have returned, in that order;
\* when document, company, contact email or filename is missing or a step
\* raises, the stored status stays as it was; and the session of
\* generate_policy is closed on every path, which every call reaches.
C30_PolicyLifecycle ==
    /\ [](PendingBeforeGeneration /\ CompletedAfterAllSteps /\ PendingWhenRaised
            /\ ClosedAtEnd)
    /\ [][StatusChangesAtCommit]_vars
    /\ (policy_session = "open") ~> (policy_session = "closed")

\* create_policy has run to the end: the row is completed and the session
\* is closed
C30_Witness ==
    /\ entered_by = "create_policy"
    /\ ppc = "returned"
    /\ stored.status = "completed"
    /\ stored.download_url = "url"
    /\ policy_session = "closed"

====
